---- MODULE Spec2Model ----
(***************************************************************************)
(* lights-http: the request pipeline of the API server (ServeMux routes,   *)
(* AuthMiddleware, LoggingMiddleware, MetricsMiddleware, the 401/404       *)
(* redirect wrapper), the LightsHandler fan-out over the controller's      *)
(* devices, and the HealthHandler.                                         *)
(*                                                                         *)
(* One call is served by one worker (net/http runs one goroutine per       *)
(* call).  A call walks through its route's chain of stages one step at a  *)
(* time; strings that the code inspects character by character (the        *)
(* Authorization header) are sequences of one-character strings.           *)
(***************************************************************************)
EXTENDS Integers, Sequences, FiniteSets, Bags, TLC

(***************************************************************************)
(* Bounds of the model.                                                    *)
(***************************************************************************)
MaxDevices == 2

\* The most checks the health loop is given when it is applied on its own.
MaxChecks == 3

\* The most writer calls a handler makes when a wrapper is applied on its own.
MaxOps == 3

\* How far the clock runs.
MaxTime == 3

(***************************************************************************)
(* HTTP status codes used by the code.                                     *)
(***************************************************************************)
StatusOK == 200
StatusFound == 302
StatusBadRequest == 400
StatusUnauthorized == 401
StatusNotFound == 404
StatusInternalServerError == 500
StatusServiceUnavailable == 503

\* No WriteHeader has reached the connection yet.
NotWritten == 0

(***************************************************************************)
(* Strings.                                                                *)
(***************************************************************************)
HasPrefix(s, p) == Len(s) >= Len(p) /\ SubSeq(s, 1, Len(p)) = p

TrimPrefix(s, p) == IF HasPrefix(s, p) THEN SubSeq(s, Len(p) + 1, Len(s)) ELSE s

BearerPrefix == <<"B", "e", "a", "r", "e", "r", " ">>

\* cfg.BearerToken: config.Load refuses an empty token.
Token == <<"t", "o", "k">>

\* Values of the Authorization header a request may carry; <<>> is what
\* Header.Get returns when the header is absent.
AuthHeaders ==
    { <<>>,
      BearerPrefix \o Token,
      BearerPrefix \o <<"b", "a", "d">>,
      Token,
      <<"B", "a", "s", "i", "c", " ">> \o Token,
      <<"b", "e", "a", "r", "e", "r", " ">> \o Token,
      BearerPrefix \o Token \o <<"x">>,
      BearerPrefix \o <<"t", "o">>,
      BearerPrefix,
      <<"B", "e", "a", "r", "e", "r">> \o Token }

Methods == {"GET", "POST"}

RequestIDs == {"1a2b3c4d", "5e6f7a8b"}

RedirectURL == "https://xkcd.com/random/"

(***************************************************************************)
(* Routes.  A route's chain lists the stages a call passes, outermost      *)
(* first and the business handler last.                                    *)
(***************************************************************************)
\* Mutant of Open: the health routes behind the gate as well.
OpenGated(h) == <<"AuthMiddleware", "LoggingMiddleware", "MetricsMiddleware", h>>

\* apiMux: open routes are wrapped by logging and metrics only.
Open(h) == <<"LoggingMiddleware", "MetricsMiddleware", h>>

\* Mutant of Protected: a route registered without the gate.
Unprotected(h) == <<"LoggingMiddleware", "MetricsMiddleware", h>>

\* apiMux: /lights/* routes are wrapped by auth, then logging, then metrics.
Protected(h) == <<"AuthMiddleware", "LoggingMiddleware", "MetricsMiddleware", h>>

\* mux of the basic server: auth directly around the handler.
Guarded(h) == <<"AuthMiddleware", h>>

apiMux ==
    ("/health" :> Open("Health")) @@
    ("/ready" :> Open("Health")) @@
    ("/live" :> Open("Health")) @@
    ("/lights/on" :> Protected("TurnOn")) @@
    ("/lights/off" :> Protected("TurnOff")) @@
    ("/lights/red" :> Protected("Red")) @@
    ("/lights/yellow" :> Protected("Yellow")) @@
    ("/lights/orange" :> Protected("Orange")) @@
    ("/lights/dark-red" :> Protected("DarkRed")) @@
    ("/lights/rgb" :> Protected("RGB")) @@
    ("/lights/colortemp" :> Protected("ColorTemp")) @@
    ("/lights/brightness" :> Protected("Brightness")) @@
    ("/lights/status" :> Protected("Status"))

mux ==
    ("/lights/on" :> Guarded("TurnOn")) @@
    ("/lights/off" :> Guarded("TurnOff")) @@
    ("/lights/red" :> Guarded("Red")) @@
    ("/lights/yellow" :> Guarded("Yellow")) @@
    ("/lights/orange" :> Guarded("Orange")) @@
    ("/lights/dark-red" :> Guarded("DarkRed")) @@
    ("/lights/rgb" :> Guarded("RGB")) @@
    ("/lights/brightness" :> Guarded("Brightness")) @@
    ("/lights/status" :> Guarded("Status"))

\* The two entry points of the repository: the API server with health
\* routes, logging and metrics, and the basic server.
Servers == {"api", "basic"}

Routes(srv) == IF srv = "api" THEN apiMux ELSE mux

LightsPaths ==
    { "/lights/on", "/lights/off", "/lights/red", "/lights/yellow",
      "/lights/orange", "/lights/dark-red", "/lights/rgb",
      "/lights/colortemp", "/lights/brightness", "/lights/status" }

HealthPaths == {"/health", "/ready", "/live"}

\* Paths no pattern of either mux matches.
UnroutedPaths == {"/", "/lights/purple"}

Paths == LightsPaths \cup HealthPaths \cup UnroutedPaths

(***************************************************************************)
(* Request bodies.  A body is empty, not JSON at all, JSON whose field has *)
(* the wrong type, or a JSON object giving integers to some of the fields. *)
(***************************************************************************)
ChannelValues == {-1, 0, 255, 256}

BrightnessValues == {-1, 0, 100, 101}

TemperatureValues == {1999, 2000, 9000, 9001}

Objects(names, vals) == UNION { [S -> vals] : S \in SUBSET names }

NoBody == [kind |-> "empty", fields |-> <<>>]

BadBodies ==
    { NoBody,
      [kind |-> "malformed", fields |-> <<>>],
      [kind |-> "mistyped", fields |-> <<>>] }

JSONBodies(names, vals) == { [kind |-> "json", fields |-> f] : f \in Objects(names, vals) }

Bodies(path) ==
    CASE path = "/lights/rgb" -> BadBodies \cup JSONBodies({"r", "g", "b"}, ChannelValues)
      [] path = "/lights/brightness" -> BadBodies \cup JSONBodies({"brightness"}, BrightnessValues)
      [] path = "/lights/colortemp" -> BadBodies \cup JSONBodies({"temperature"}, TemperatureValues)
      [] OTHER -> {NoBody}

\* Mutant of DecodeOK: a field of the wrong type is let through.
DecodeLenient(body) == body.kind \in {"json", "mistyped"}

\* Mutant of Decode: a field the object does not give is left at a value no
\* range admits, as if the field were required.
DecodeRequired(body, names) ==
    [n \in names |-> IF n \in DOMAIN body.fields THEN body.fields[n] ELSE -1]

\* json.Decoder.Decode into a struct of int fields: an error for a body that
\* is not a JSON value of the schema, else the struct, a field the object
\* does not give keeping its zero value.
DecodeOK(body) == body.kind = "json"

Decode(body, names) ==
    [n \in names |-> IF n \in DOMAIN body.fields THEN body.fields[n] ELSE 0]

(***************************************************************************)
(* The response.  w is a call's record: status is the status line sent to  *)
(* the client (NotWritten until the first WriteHeader), header the         *)
(* handler's header map, sent the headers as they were when the status was *)
(* written, out the chunks written to the body; srw, lrw and mrw are the   *)
(* status fields of the statusRecorder, the logging responseWriter and the *)
(* metricsResponseWriter.                                                  *)
(***************************************************************************)
HeaderNames == {"Content-Type", "X-Content-Type-Options", "Location", "X-Request-ID"}

NoHeaders == [n \in HeaderNames |-> ""]

Chunk(kind, key, text, items) == [kind |-> kind, key |-> key, text |-> text, items |-> items]

Text(s) == Chunk("text", "", s, <<>>)

\* json.NewEncoder(w).Encode(map[string]string{key: text})
JSONObject(key, text) == Chunk("json", key, text, <<>>)

\* json.NewEncoder(w).Encode(statuses)
JSONList(items) == Chunk("json-list", "", "", items)

\* The connection's WriteHeader: the first call fixes the status and the
\* headers; a later call is superfluous and changes nothing.
ConnWriteHeader(w, code) ==
    IF w.status # NotWritten THEN w
    ELSE [w EXCEPT !.status = code, !.sent = w.header]

\* The connection's Write: writes the header with 200 if none was written.
ConnWrite(w, chunk) ==
    LET w1 == ConnWriteHeader(w, StatusOK)
    IN [w1 EXCEPT !.out = Append(@, chunk)]

SetHeader(w, name, value) == [w EXCEPT !.header[name] = value]

\* statusRecorder.WriteHeader
RecorderWriteHeader(w, code) == ConnWriteHeader([w EXCEPT !.srw = code], code)

\* responseWriter.WriteHeader of the logging middleware
LoggingWriteHeader(w, code) == [w EXCEPT !.lrw = code]

\* Mutant of MetricsWriteHeader: the wrapper sends the status it was created
\* with instead of handing on the code it is given.
MetricsWriteHeaderOwnStatus(w, code) ==
    ConnWriteHeader([w EXCEPT !.srw = w.mrw, !.mrw = code], w.mrw)

\* metricsResponseWriter.WriteHeader
MetricsWriteHeader(w, code) == [w EXCEPT !.mrw = code]

\* WriteHeader on the writer the running stage was handed: through the
\* wrapper of every middleware the call is inside of, innermost first, then
\* through the statusRecorder to the connection.
RECURSIVE ThroughWrappers(_, _, _)
ThroughWrappers(w, stack, code) ==
    IF stack = <<>> THEN RecorderWriteHeader(w, code)
    ELSE LET top == stack[Len(stack)]
             rest == SubSeq(stack, 1, Len(stack) - 1)
             w1 == CASE top = "LoggingMiddleware" -> LoggingWriteHeader(w, code)
                     [] top = "MetricsMiddleware" -> MetricsWriteHeader(w, code)
                     [] OTHER -> w
         IN ThroughWrappers(w1, rest, code)

WriteHeader(w, code) == ThroughWrappers(w, w.stack, code)

\* Write is promoted from the embedded ResponseWriter: no wrapper sees it.
Write(w, chunk) == ConnWrite(w, chunk)

\* http.Error(w, msg, code)
HTTPError(w, msg, code) ==
    LET w1 == SetHeader(w, "Content-Type", "text/plain; charset=utf-8")
        w2 == SetHeader(w1, "X-Content-Type-Options", "nosniff")
    IN Write(WriteHeader(w2, code), Text(msg))

\* http.Redirect(w, r, url, code) on the connection's own writer.
Redirect(w, url, code) ==
    LET hadCT == w.header["Content-Type"] # ""
        w1 == SetHeader(w, "Location", url)
        w2 == IF ~hadCT /\ w.method \in {"GET", "HEAD"}
              THEN SetHeader(w1, "Content-Type", "text/html; charset=utf-8")
              ELSE w1
        w3 == ConnWriteHeader(w2, code)
    IN IF ~hadCT /\ w.method = "GET" THEN ConnWrite(w3, Text("<a href>Found</a>")) ELSE w3

(***************************************************************************)
(* Devices.  A device keeps what the last acknowledged command set.        *)
(***************************************************************************)
DeviceIds == 1..MaxDevices

Command(kind, r, g, b, v) == [kind |-> kind, r |-> r, g |-> g, b |-> b, v |-> v]

NewDevice == [onOff |-> FALSE, r |-> 0, g |-> 0, b |-> 0, brightness |-> 0, kelvin |-> 0]

\* Mutant of Apply: the device acknowledges and does nothing.
ApplyNothing(dev, cmd) == dev

\* The device after it acknowledged cmd.
Apply(dev, cmd) ==
    CASE cmd.kind = "on" -> [dev EXCEPT !.onOff = TRUE]
      [] cmd.kind = "off" -> [dev EXCEPT !.onOff = FALSE]
      [] cmd.kind = "color" -> [dev EXCEPT !.r = cmd.r, !.g = cmd.g, !.b = cmd.b]
      [] cmd.kind = "brightness" -> [dev EXCEPT !.brightness = cmd.v]
      [] cmd.kind = "kelvin" -> [dev EXCEPT !.kelvin = cmd.v]
      [] OTHER -> dev

NoCommand == Command("none", 0, 0, 0, 0)

Operation(name, msg, cmd) == [name |-> name, msg |-> msg, cmd |-> cmd]

NoOperation == Operation("", "", NoCommand)

(***************************************************************************)
(* State.                                                                  *)
(***************************************************************************)
VARIABLES
    server,                 \* which entry point runs
    workers,                \* the calls the server serves
    controllerInitialized,  \* HealthHandler.Controller != nil
    devices,                \* Controller.Devices(), in enumeration order
    device,                 \* the state of every device
    calls,                  \* per call: request, position, response
    activeConnections,      \* metrics.ActiveConnections
    httpRequestsTotal,      \* metrics.HTTPRequestsTotal, a bag of labels
    httpRequestDuration,    \* metrics.HTTPRequestDuration, a bag of labels
    lightOperationsTotal,   \* metrics.LightOperationsTotal, a bag of labels
    probe,                  \* a function of the code applied on its own: input, result
    now,                    \* the monotonic clock time.Now() reads
    StartTime               \* HealthHandler.StartTime

vars ==
    << server, workers, probe, now, StartTime, controllerInitialized, devices, device, calls,
       activeConnections, httpRequestsTotal, httpRequestDuration,
       lightOperationsTotal >>

metricVars ==
    << activeConnections, httpRequestsTotal, httpRequestDuration, lightOperationsTotal >>

\* The server runs; no function is applied on its own.
NoProbe == [kind |-> "none"]

IdleCall ==
    [ pc |-> "idle", method |-> "GET", path |-> "/", auth |-> <<>>, body |-> NoBody,
      todo |-> <<>>, stack |-> <<>>, ctxRequestID |-> "",
      status |-> NotWritten, header |-> NoHeaders, sent |-> NoHeaders, out |-> <<>>,
      srw |-> NotWritten, lrw |-> NotWritten, mrw |-> NotWritten,
      gate |-> "none", handler |-> "", devicesRead |-> 0, running |-> {}, requestID |-> "", randFailed |-> FALSE, timestamp |-> 0, uptime |-> 0,
      op |-> NoOperation, devs |-> <<>>, i |-> 0, success |-> TRUE, trace |-> <<>>,
      statuses |-> <<>>, logStatus |-> NotWritten ]

Init ==
    /\ server \in Servers
    /\ workers = {1}
    /\ probe = NoProbe
    /\ now = 0
    /\ StartTime = now
    /\ controllerInitialized \in BOOLEAN
    /\ devices = <<>>
    /\ device = [d \in DeviceIds |-> NewDevice]
    /\ calls = [c \in workers |-> IdleCall]
    /\ activeConnections = 0
    /\ httpRequestsTotal = EmptyBag
    /\ httpRequestDuration = EmptyBag
    /\ lightOperationsTotal = EmptyBag

Set(c, k) == calls' = [calls EXCEPT ![c] = k]

\* The stage a call is about to enter.
At(c, stage) ==
    /\ c \in workers
    /\ calls[c].pc = "enter"
    /\ calls[c].todo # <<>>
    /\ Head(calls[c].todo) = stage

\* The middleware a call is about to return into.
Returning(c, stage) ==
    /\ c \in workers
    /\ calls[c].pc = "exit"
    /\ calls[c].stack # <<>>
    /\ calls[c].stack[Len(calls[c].stack)] = stage

Pop(stack) == SubSeq(stack, 1, Len(stack) - 1)

(***************************************************************************)
(* The controller discovers one more device.                               *)
(***************************************************************************)
Discover ==
    /\ Len(devices) < MaxDevices
    /\ devices' = Append(devices, Len(devices) + 1)
    /\ UNCHANGED << server, workers, probe, now, StartTime, controllerInitialized, device, calls, metricVars >>

(***************************************************************************)
(* apiHandler / handler of main: a call arrives, is given a statusRecorder *)
(* and handed to the mux.                                                  *)
(***************************************************************************)
\* srw := &statusRecorder{ResponseWriter: w, status: 200} for the call received.
Received(k, m, p, a, b) ==
    [k EXCEPT !.pc = "mux", !.method = m, !.path = p, !.auth = a, !.body = b,
              !.srw = StatusOK]

Accept(c) ==
    /\ c \in workers
    /\ calls[c].pc = "idle"
    /\ \E m \in Methods, p \in Paths, a \in AuthHeaders :
         \E b \in Bodies(p) : Set(c, Received(calls[c], m, p, a, b))
    /\ UNCHANGED << server, workers, probe, now, StartTime, controllerInitialized, devices, device, metricVars >>

\* Mutant of Matches: a route answers its documented method only.
MatchesDocumentedMethod(method, path, routes) ==
    /\ path \in DOMAIN routes
    /\ method = IF path \in HealthPaths \cup {"/lights/status"} THEN "GET" ELSE "POST"

\* The patterns are registered as paths, without a method: a request matches
\* by its path whatever its method.
Matches(method, path, routes) == path \in DOMAIN routes

\* ServeMux.ServeHTTP: the route's chain, or NotFound.
ServeMux(c) ==
    /\ c \in workers
    /\ calls[c].pc = "mux"
    /\ LET k == calls[c]
           routes == Routes(server)
       IN IF Matches(k.method, k.path, routes)
          THEN Set(c, [k EXCEPT !.pc = "enter", !.todo = routes[k.path]])
          ELSE Set(c, [HTTPError(k, "404 page not found", StatusNotFound)
                          EXCEPT !.pc = "exit"])
    /\ UNCHANGED << server, workers, probe, now, StartTime, controllerInitialized, devices, device, metricVars >>

\* The tail of apiHandler / handler: redirect what the mux answered with
\* 404 or 401.
RedirectStep(c) ==
    /\ c \in workers
    /\ calls[c].pc = "exit"
    /\ calls[c].stack = <<>>
    /\ LET k == calls[c]
       IN IF k.srw = StatusNotFound \/ k.srw = StatusUnauthorized
          THEN Set(c, [Redirect(k, RedirectURL, StatusFound) EXCEPT !.pc = "done"])
          ELSE Set(c, [k EXCEPT !.pc = "done"])
    /\ UNCHANGED << server, workers, probe, now, StartTime, controllerInitialized, devices, device, metricVars >>

(***************************************************************************)
(* AuthMiddleware(token)(next)                                             *)
(***************************************************************************)
\* Mutant of Authorized: the scheme is checked, the token only up to the
\* length of what was presented.
AuthorizedUpToLength(header, token) ==
    /\ HasPrefix(header, BearerPrefix)
    /\ HasPrefix(token, TrimPrefix(header, BearerPrefix))

Authorized(header, token) ==
    /\ HasPrefix(header, BearerPrefix)
    /\ TrimPrefix(header, BearerPrefix) = token

\* Mutant of Reject: the answer tells a missing header from a wrong one.
RejectTelling(k) ==
    IF k.auth = <<>>
    THEN HTTPError(k, "Missing authorization header", StatusUnauthorized)
    ELSE HTTPError(k, "Unauthorized", StatusUnauthorized)

\* The gate's answer to a call it does not accept.
Reject(k) == HTTPError(k, "Unauthorized", StatusUnauthorized)

AuthMiddleware(c) ==
    /\ At(c, "AuthMiddleware")
    /\ LET k == calls[c]
       IN IF Authorized(k.auth, Token)
          THEN Set(c, [k EXCEPT !.gate = "accepted", !.todo = Tail(@)])
          ELSE Set(c, [Reject(k) EXCEPT !.gate = "rejected", !.pc = "exit"])
    /\ UNCHANGED << server, workers, probe, now, StartTime, controllerInitialized, devices, device, metricVars >>

(***************************************************************************)
(* LoggingMiddleware.Middleware(next)                                      *)
(***************************************************************************)
\* fmt.Sprintf("%x", bytes) of four bytes rand.Read left at zero.
ZeroID == "00000000"

\* What generateRequestID can do: return a random ID; or, rand.Read failing,
\* return the ID of the untouched buffer, its error being dropped; or, with
\* a crypto/rand whose Read cannot return an error, end the process.
Generated == { [id |-> id, failed |-> FALSE, fatal |-> FALSE] : id \in RequestIDs }
             \cup { [id |-> ZeroID, failed |-> TRUE, fatal |-> FALSE],
                    [id |-> "", failed |-> TRUE, fatal |-> TRUE] }

\* The process has ended: every call in flight is gone with it.
Crashed(c) == [k \in workers |-> [calls[k] EXCEPT !.pc = "crashed", !.randFailed = (k = c)]]

LoggingEnter(c) ==
    /\ At(c, "LoggingMiddleware")
    /\ \E g \in Generated :
         LET k == calls[c]
             k1 == SetHeader([k EXCEPT !.ctxRequestID = g.id, !.randFailed = g.failed],
                             "X-Request-ID", g.id)
         IN IF g.fatal
            THEN calls' = Crashed(c)
            ELSE Set(c, [k1 EXCEPT !.lrw = StatusOK, !.todo = Tail(@),
                                   !.stack = Append(@, "LoggingMiddleware")])
    /\ UNCHANGED << server, workers, probe, now, StartTime, controllerInitialized, devices, device, metricVars >>

LoggingExit(c) ==
    /\ Returning(c, "LoggingMiddleware")
    /\ LET k == calls[c]
       IN Set(c, [k EXCEPT !.logStatus = k.lrw, !.stack = Pop(@)])
    /\ UNCHANGED << server, workers, probe, now, StartTime, controllerInitialized, devices, device, metricVars >>

(***************************************************************************)
(* MetricsMiddleware.Middleware(next)                                      *)
(***************************************************************************)
MetricsEnter(c) ==
    /\ At(c, "MetricsMiddleware")
    /\ activeConnections' = activeConnections + 1
    /\ LET k == calls[c]
       IN Set(c, [k EXCEPT !.mrw = StatusOK, !.todo = Tail(@),
                             !.stack = Append(@, "MetricsMiddleware")])
    /\ UNCHANGED << server, workers, probe, now, StartTime, controllerInitialized, devices, device,
                    httpRequestsTotal, httpRequestDuration, lightOperationsTotal >>

MetricsExit(c) ==
    /\ Returning(c, "MetricsMiddleware")
    /\ LET k == calls[c]
       IN /\ httpRequestsTotal' = httpRequestsTotal (+) SetToBag({<<k.method, k.path, k.mrw>>})
          /\ httpRequestDuration' = httpRequestDuration (+) SetToBag({<<k.method, k.path>>})
          /\ Set(c, [k EXCEPT !.stack = Pop(@)])
    /\ activeConnections' = activeConnections - 1
    /\ UNCHANGED << server, workers, probe, now, StartTime, controllerInitialized, devices, device,
                    lightOperationsTotal >>

(***************************************************************************)
(* LightsHandler.executeLightOperation                                     *)
(***************************************************************************)
Event(ev, dev, ok) == [ev |-> ev, dev |-> dev, ok |-> ok]

\* Mutant of getRequestID: the lookup never finds the value.
getRequestIDNotFound(ctx) == "unknown"

\* getRequestID(r.Context()): the value the logging middleware stored in the
\* call's context, or the placeholder when there is none.
getRequestID(ctx) == IF ctx = "" THEN "unknown" ELSE ctx

\* A handler passes its operation to executeLightOperation.
Execute(k, handler, op) ==
    [k EXCEPT !.handler = handler, !.op = op, !.todo = Tail(@), !.pc = "execute"]

\* devices := h.Controller.Devices(); the loop starts at the first one.
ExecuteStart(c) ==
    /\ c \in workers
    /\ calls[c].pc = "execute"
    /\ LET k == calls[c]
       IN Set(c, [k EXCEPT !.devs = devices, !.devicesRead = @ + 1, !.success = TRUE,
                             !.requestID = getRequestID(k.ctxRequestID), !.i = 1,
                             !.pc = IF devices = <<>> THEN "finish" ELSE "device"])
    /\ UNCHANGED << server, workers, probe, now, StartTime, controllerInitialized, devices, device, metricVars >>

\* Mutant of Succeeded: the last device decides.
LastDecides(success, ok) == ok

\* success after one more device answered.
Succeeded(success, ok) == IF ok THEN success ELSE FALSE

\* Mutant of AfterOperation: a device error leaves the loop as an abort.
AbortOnFailure(i, n, ok) == IF ~ok THEN "aborted" ELSE IF i < n THEN "sleep" ELSE "finish"

\* Mutant of AfterOperation: the loop stops at the first failure.
StopAtFailure(i, n, ok) == IF ok /\ i < n THEN "sleep" ELSE "finish"

\* Where the loop goes after the operation on device i of n.
AfterOperation(i, n, ok) == IF i < n THEN "sleep" ELSE "finish"

\* The commands of the call in progress once the one on device d has started.
Started(running, d) == running \cup {d}

\* Mutant of Returned: the loop goes on while the command is still running,
\* as if it had been started on a goroutine of its own.
StillRunning(running, d) == running

\* The commands of the call in progress once the one on device d has returned.
Returned(running, d) == running \ {d}

\* operationFunc(device) is called on the device the loop is at.
DeviceCall(c) ==
    /\ c \in workers
    /\ calls[c].pc = "device"
    /\ LET k == calls[c]
       IN Set(c, [k EXCEPT !.running = Started(@, k.devs[k.i]), !.pc = "operating"])
    /\ UNCHANGED << server, workers, probe, now, StartTime, controllerInitialized, devices, device, metricVars >>

\* operationFunc(device) returns; it may have failed.
DeviceOperation(c) ==
    /\ c \in workers
    /\ calls[c].pc = "operating"
    /\ \E ok \in BOOLEAN :
         LET k == calls[c]
             d == k.devs[k.i]
         IN /\ Set(c, [k EXCEPT !.trace = Append(@, Event("op", d, ok)),
                                 !.running = Returned(@, d),
                                 !.success = Succeeded(k.success, ok),
                                 !.pc = AfterOperation(k.i, Len(k.devs), ok)])
            /\ device' = IF ok THEN [device EXCEPT ![d] = Apply(@, k.op.cmd)] ELSE device
    /\ UNCHANGED << server, workers, probe, now, StartTime, controllerInitialized, devices, metricVars >>

\* Mutant of Delay: the call sleeps twice in a row.
DelayTwice(trace) == trace \o <<Event("sleep", 0, TRUE), Event("sleep", 0, TRUE)>>

\* One time.Sleep in the call's sequence of events.
Delay(trace) == Append(trace, Event("sleep", 0, TRUE))

\* time.Sleep(100 * time.Millisecond) between two devices.
Sleep(c) ==
    /\ c \in workers
    /\ calls[c].pc = "sleep"
    /\ LET k == calls[c]
       IN Set(c, [k EXCEPT !.trace = Delay(@),
                             !.i = @ + 1, !.pc = "device"])
    /\ UNCHANGED << server, workers, probe, now, StartTime, controllerInitialized, devices, device, metricVars >>

\* The response of executeLightOperation.
Respond(k) ==
    IF ~k.success
    THEN Write(WriteHeader(k, StatusInternalServerError),
               JSONObject("error", k.op.name))
    ELSE Write(WriteHeader(k, StatusOK), JSONObject("status", k.op.msg))

ExecuteFinish(c) ==
    /\ c \in workers
    /\ calls[c].pc = "finish"
    /\ LET k == calls[c]
       IN /\ Set(c, [Respond(k) EXCEPT !.pc = "exit"])
          /\ lightOperationsTotal' =
                IF k.success
                THEN lightOperationsTotal (+) SetToBag({<<k.op.name, "success">>})
                ELSE lightOperationsTotal
    /\ UNCHANGED << server, workers, probe, now, StartTime, controllerInitialized, devices, device,
                    activeConnections, httpRequestsTotal, httpRequestDuration >>

(***************************************************************************)
(* The handlers of LightsHandler.                                          *)
(***************************************************************************)
LightsSetTo(colorName) ==
    CASE colorName = "red" -> "lights set to red"
      [] colorName = "yellow" -> "lights set to yellow"
      [] colorName = "orange" -> "lights set to orange"
      [] colorName = "dark-red" -> "lights set to dark-red"
      [] OTHER -> "lights set to rgb"

SetColor(k, handler, r, g, b, colorName) ==
    Execute(k, handler, Operation("set_color", LightsSetTo(colorName), Command("color", r, g, b, 0)))

Frame == UNCHANGED << server, workers, probe, now, StartTime, controllerInitialized, devices, device, metricVars >>

TurnOn(c) ==
    /\ At(c, "TurnOn")
    /\ Set(c, Execute(calls[c], "TurnOn",
                      Operation("turn_on", "lights turned on", Command("on", 0, 0, 0, 0))))
    /\ Frame

TurnOff(c) ==
    /\ At(c, "TurnOff")
    /\ Set(c, Execute(calls[c], "TurnOff",
                      Operation("turn_off", "lights turned off", Command("off", 0, 0, 0, 0))))
    /\ Frame

Red(c) == At(c, "Red") /\ Set(c, SetColor(calls[c], "Red", 255, 0, 0, "red")) /\ Frame

Yellow(c) == At(c, "Yellow") /\ Set(c, SetColor(calls[c], "Yellow", 255, 255, 0, "yellow")) /\ Frame

Orange(c) == At(c, "Orange") /\ Set(c, SetColor(calls[c], "Orange", 139, 64, 0, "orange")) /\ Frame

DarkRed(c) == At(c, "DarkRed") /\ Set(c, SetColor(calls[c], "DarkRed", 255, 11, 0, "dark-red")) /\ Frame

\* parseAndValidateJSON failed, or a value is out of range: 400, and the
\* handler returns.
BadRequest(k, handler, msg) ==
    [HTTPError(k, msg, StatusBadRequest)
        EXCEPT !.handler = handler, !.requestID = getRequestID(k.ctxRequestID),
               !.todo = Tail(@), !.pc = "exit"]

\* Mutant of RGBInvalid: the upper bound of the blue channel is off by one.
RGBInvalidLoose(req) ==
    \/ req["r"] < 0 \/ req["r"] > 255
    \/ req["g"] < 0 \/ req["g"] > 255
    \/ req["b"] < 0 \/ req["b"] > 256

RGBInvalid(req) ==
    \/ req["r"] < 0 \/ req["r"] > 255
    \/ req["g"] < 0 \/ req["g"] > 255
    \/ req["b"] < 0 \/ req["b"] > 255

RGB(c) ==
    /\ At(c, "RGB")
    /\ LET k == calls[c]
           req == Decode(k.body, {"r", "g", "b"})
       IN IF ~DecodeOK(k.body) THEN Set(c, BadRequest(k, "RGB", "Invalid JSON"))
          ELSE IF RGBInvalid(req)
          THEN Set(c, BadRequest(k, "RGB", "RGB values must be between 0 and 255"))
          ELSE Set(c, SetColor(k, "RGB", req["r"], req["g"], req["b"], "rgb"))
    /\ Frame

ColorTempInvalid(req) == req["temperature"] < 2000 \/ req["temperature"] > 9000

ColorTemp(c) ==
    /\ At(c, "ColorTemp")
    /\ LET k == calls[c]
           req == Decode(k.body, {"temperature"})
       IN IF ~DecodeOK(k.body) THEN Set(c, BadRequest(k, "ColorTemp", "Invalid JSON"))
          ELSE IF ColorTempInvalid(req)
          THEN Set(c, BadRequest(k, "ColorTemp",
                                 "Color temperature must be between 2000K and 9000K"))
          ELSE Set(c, Execute(k, "ColorTemp",
                              Operation("set_color_temp", "color temperature set",
                                        Command("kelvin", 0, 0, 0, req["temperature"]))))
    /\ Frame

BrightnessInvalid(req) == req["brightness"] < 0 \/ req["brightness"] > 100

Brightness(c) ==
    /\ At(c, "Brightness")
    /\ LET k == calls[c]
           req == Decode(k.body, {"brightness"})
       IN IF ~DecodeOK(k.body) THEN Set(c, BadRequest(k, "Brightness", "Invalid JSON"))
          ELSE IF BrightnessInvalid(req)
          THEN Set(c, BadRequest(k, "Brightness", "Brightness must be between 0 and 100"))
          ELSE Set(c, Execute(k, "Brightness",
                              Operation("set_brightness", "brightness set",
                                        Command("brightness", 0, 0, 0, req["brightness"]))))
    /\ Frame

(***************************************************************************)
(* LightsHandler.Status                                                    *)
(***************************************************************************)
StatusStart(c) ==
    /\ At(c, "Status")
    /\ LET k == calls[c]
       IN Set(c, [k EXCEPT !.handler = "Status", !.todo = Tail(@), !.devs = devices,
                             !.requestID = getRequestID(k.ctxRequestID),
                             !.devicesRead = @ + 1, !.i = 1, !.statuses = <<>>,
                             !.pc = IF devices = <<>> THEN "statusDone" ELSE "request"])
    /\ Frame

\* Mutant of Collect: the entry is appended whether the request failed or not.
CollectAll(statuses, d, state, ok) == Append(statuses, [deviceID |-> d, state |-> state])

\* err != nil: continue; otherwise the device's entry is appended.
Collect(statuses, d, state, ok) ==
    IF ok THEN Append(statuses, [deviceID |-> d, state |-> state]) ELSE statuses

\* device.RequestStatus() on the device the loop is at; a device that fails is
\* skipped.
RequestStatus(c) ==
    /\ c \in workers
    /\ calls[c].pc = "request"
    /\ \E ok \in BOOLEAN :
         LET k == calls[c]
             d == k.devs[k.i]
         IN Set(c, [k EXCEPT !.trace = Append(@, Event("status", d, ok)),
                              !.statuses = Collect(@, d, device[d], ok),
                              !.i = @ + 1,
                              !.pc = IF k.i < Len(k.devs) THEN "request" ELSE "statusDone"])
    /\ Frame

StatusFinish(c) ==
    /\ c \in workers
    /\ calls[c].pc = "statusDone"
    /\ LET k == calls[c]
       IN Set(c, [Write(WriteHeader(k, StatusOK), JSONList(k.statuses)) EXCEPT !.pc = "exit"])
    /\ Frame

(***************************************************************************)
(* HealthHandler.Health                                                    *)
(***************************************************************************)
Check(name, status, detail) == [name |-> name, status |-> status, detail |-> detail]

\* checks["controller"]
\* Mutant of ControllerCheck: a controller without devices is reported as failed.
ControllerCheckNeedsDevices(initialized, n) ==
    IF initialized /\ n > 0 THEN Check("controller", "ok", "devices connected")
    ELSE Check("controller", "error", "Controller not initialized")

ControllerCheck(initialized, n) ==
    IF initialized
    THEN IF n > 0 THEN Check("controller", "ok", "devices connected")
         ELSE Check("controller", "ok", "Controller initialized, no devices currently connected")
    ELSE Check("controller", "error", "Controller not initialized")

\* The loop over the checks, in the order the map is iterated in.
RECURSIVE Overall(_, _)
Overall(status, order) ==
    IF order = <<>> THEN status
    ELSE IF Head(order).status = "error" THEN "error"
    ELSE IF Head(order).status = "warn" /\ status = "ok" THEN Overall("warn", Tail(order))
    ELSE Overall(status, Tail(order))

\* Mutant of OverallStatus: no break on error and no test of the status so
\* far, so the check iterated last decides between warn and error.
RECURSIVE LaterCheckOverrides(_, _)
LaterCheckOverrides(status, order) ==
    IF order = <<>> THEN status
    ELSE IF Head(order).status \in {"error", "warn"}
    THEN LaterCheckOverrides(Head(order).status, Tail(order))
    ELSE LaterCheckOverrides(status, Tail(order))

OverallLastDecides(order) == LaterCheckOverrides("ok", order)

\* status := "ok", then the loop.
OverallStatus(order) == Overall("ok", order)

\* Mutant of HealthCode: a warning takes the service out of rotation.
HealthCodeStrict(status) == IF status = "ok" THEN StatusOK ELSE StatusServiceUnavailable

HealthCode(status) ==
    CASE status = "ok" -> StatusOK
      [] status = "warn" -> StatusOK
      [] status = "error" -> StatusServiceUnavailable

\* Mutant of Since: the start of the process is taken anew at every report.
SinceNow(start, t) == t - t

\* time.Since(h.StartTime) read at time t.
Since(start, t) == t - start

\* The response of Health for the checks made: the Content-Type, the status
\* line, then the report, or http.Error when encoding it fails.
HealthResponse(k, status, checks, encoded) ==
    LET k2 == WriteHeader(SetHeader(k, "Content-Type", "application/json"),
                          HealthCode(status))
    IN IF encoded
       THEN Write(k2, Chunk("json-health", "status", status, checks))
       ELSE HTTPError(k2, "Internal server error", StatusInternalServerError)

Health(c) ==
    /\ At(c, "Health")
    /\ \E encoded \in BOOLEAN :
         LET k == calls[c]
             checks == <<ControllerCheck(controllerInitialized, Len(devices))>>
             status == OverallStatus(checks)
             k1 == [k EXCEPT !.handler = "Health", !.todo = Tail(@), !.pc = "exit",
                             !.requestID = getRequestID(k.ctxRequestID),
                             !.timestamp = now, !.uptime = Since(StartTime, now),
                             !.devicesRead = IF controllerInitialized THEN @ + 1 ELSE @]
         IN Set(c, HealthResponse(k1, status, checks, encoded))
    /\ Frame

(***************************************************************************)
(* The server.                                                             *)
(***************************************************************************)
Next ==
    \/ Discover
    \/ \E c \in workers : Accept(c)
    \/ \E c \in workers : ServeMux(c)
    \/ \E c \in workers : RedirectStep(c)
    \/ \E c \in workers : AuthMiddleware(c)
    \/ \E c \in workers : LoggingEnter(c)
    \/ \E c \in workers : LoggingExit(c)
    \/ \E c \in workers : MetricsEnter(c)
    \/ \E c \in workers : MetricsExit(c)
    \/ \E c \in workers : ExecuteStart(c)
    \/ \E c \in workers : DeviceCall(c)
    \/ \E c \in workers : DeviceOperation(c)
    \/ \E c \in workers : Sleep(c)
    \/ \E c \in workers : ExecuteFinish(c)
    \/ \E c \in workers : TurnOn(c)
    \/ \E c \in workers : TurnOff(c)
    \/ \E c \in workers : Red(c)
    \/ \E c \in workers : Yellow(c)
    \/ \E c \in workers : Orange(c)
    \/ \E c \in workers : DarkRed(c)
    \/ \E c \in workers : RGB(c)
    \/ \E c \in workers : ColorTemp(c)
    \/ \E c \in workers : Brightness(c)
    \/ \E c \in workers : StatusStart(c)
    \/ \E c \in workers : RequestStatus(c)
    \/ \E c \in workers : StatusFinish(c)
    \/ \E c \in workers : Health(c)

Spec == Init /\ [][Next]_vars

(***************************************************************************)
(* Properties.                                                             *)
(***************************************************************************)
Done(c) == c \in workers /\ calls[c].pc = "done"

\* The one header value the gate is to accept: the scheme, then the token.
ValidCredential == BearerPrefix \o Token

\* The call went through the gate.
Gated(c) == c \in workers /\ calls[c].gate # "none"

\* Nothing behind the gate has run for the call.
NothingDownstream(k) ==
    /\ k.handler = ""
    /\ k.devicesRead = 0
    /\ k.trace = <<>>
    /\ k.stack = <<>>
    /\ k.ctxRequestID = ""
    /\ k.lrw = NotWritten
    /\ k.mrw = NotWritten

\* C1: the gate hands the call on exactly when the Authorization header is
\* the scheme prefix followed by the configured token; every other header
\* (absent, no or another scheme, another token) is answered 401 and the
\* wrapped handler does not run.
C1_GateAcceptsExactlyTheToken ==
    \A c \in workers :
        Gated(c) =>
            LET k == calls[c]
            IN /\ (k.gate = "accepted") <=> (k.auth = ValidCredential)
               /\ k.gate = "rejected" => /\ k.srw = StatusUnauthorized
                                         /\ k.handler = ""
                                         /\ k.pc \in {"exit", "done"}
               /\ (k.gate = "accepted" /\ k.pc = "done") => k.handler # ""

C1_Witness ==
    \E c \in workers :
        /\ Done(c)
        /\ calls[c].gate = "rejected"
        /\ calls[c].auth = BearerPrefix \o <<"t", "o">>
        /\ calls[c].srw = StatusUnauthorized

\* C2: a call to a /lights/* route whose credential the gate does not accept
\* is stopped at the gate: no later stage and no handler runs, the device
\* list is not read and no device command is issued, whatever its body.
C2_RejectedRunsNothing ==
    \A c \in workers :
        LET k == calls[c]
        IN (c \in workers /\ k.path \in LightsPaths /\ k.auth # ValidCredential) =>
              /\ NothingDownstream(k)
              /\ k.pc = "done" /\ k.path \in DOMAIN Routes(server) => k.gate = "rejected"

C2_Witness ==
    \E c \in workers :
        /\ Done(c)
        /\ calls[c].gate = "rejected"
        /\ calls[c].path = "/lights/rgb"
        /\ calls[c].body = [kind |-> "json", fields |-> [n \in {"r", "g", "b"} |-> 255]]
        /\ Len(devices) = MaxDevices
        /\ calls[c].devicesRead = 0

\* The device operations of a trace, in the order they were made.
Operations(trace) == SelectSeq(trace, LAMBDA e : e.ev = "op")

DevicesOf(trace) == [j \in 1..Len(trace) |-> trace[j].dev]

\* The fan-out of the call has gone through its whole loop.
FannedOut(c) ==
    /\ c \in workers
    /\ calls[c].op # NoOperation
    /\ calls[c].pc \in {"finish", "exit", "done"}

\* C3: one fan-out applies the operation to every device of the list
\* Controller.Devices() returned, once each and in that order, whichever of
\* them fail; while the loop runs the devices attempted are a prefix of the
\* list.
C3_EveryDeviceOnceInOrder ==
    \A c \in workers :
        LET k == calls[c]
            tried == DevicesOf(Operations(k.trace))
        IN (c \in workers /\ k.op # NoOperation) =>
              /\ Len(tried) <= Len(k.devs)
              /\ tried = SubSeq(k.devs, 1, Len(tried))
              /\ FannedOut(c) => tried = k.devs

C3_Witness ==
    \E c \in workers :
        /\ Done(c)
        /\ Len(calls[c].devs) = 2
        /\ Len(Operations(calls[c].trace)) = 2
        /\ ~Operations(calls[c].trace)[1].ok
        /\ Operations(calls[c].trace)[2].ok

\* The confirmation each command route answers with.
Confirmation(path) ==
    CASE path = "/lights/on" -> "lights turned on"
      [] path = "/lights/off" -> "lights turned off"
      [] path = "/lights/red" -> "lights set to red"
      [] path = "/lights/yellow" -> "lights set to yellow"
      [] path = "/lights/orange" -> "lights set to orange"
      [] path = "/lights/dark-red" -> "lights set to dark-red"
      [] path = "/lights/rgb" -> "lights set to rgb"
      [] path = "/lights/brightness" -> "brightness set"
      [] path = "/lights/colortemp" -> "color temperature set"
      [] OTHER -> ""

AllSucceeded(trace) == \A j \in 1..Len(trace) : trace[j].ev = "op" => trace[j].ok

\* C4: a fan-out call answers 200 with {status: <the route's confirmation>}
\* exactly when every device operation succeeded (so also for no devices),
\* and 500 with an error body when at least one failed.
C4_SuccessIffAllSucceeded ==
    \A c \in workers :
        (Done(c) /\ calls[c].op # NoOperation) =>
            LET k == calls[c]
            IN IF AllSucceeded(k.trace)
               THEN /\ k.status = StatusOK
                    /\ k.out = <<JSONObject("status", Confirmation(k.path))>>
               ELSE /\ k.status = StatusInternalServerError
                    /\ Len(k.out) = 1
                    /\ k.out[1].key = "error"

C4_Witness ==
    \E c \in workers :
        /\ Done(c)
        /\ calls[c].op # NoOperation
        /\ Len(Operations(calls[c].trace)) = 2
        /\ ~Operations(calls[c].trace)[1].ok
        /\ Operations(calls[c].trace)[2].ok
        /\ calls[c].status = StatusInternalServerError
        /\ device[2] # NewDevice

\* The routes whose handler parses and validates a JSON body.
ParsingPaths == {"/lights/rgb", "/lights/brightness", "/lights/colortemp"}

\* The value the handler validates for a field: the body's, or 0 for a field the
\* body does not give.
Given(body, name) == IF name \in DOMAIN body.fields THEN body.fields[name] ELSE 0

\* Some parameter of the route is outside its inclusive range.
OutOfRange(path, body) ==
    CASE path = "/lights/rgb" ->
            \E n \in {"r", "g", "b"} : Given(body, n) \notin 0..255
      [] path = "/lights/brightness" -> Given(body, "brightness") \notin 0..100
      [] path = "/lights/colortemp" -> Given(body, "temperature") \notin 2000..9000
      [] OTHER -> FALSE

\* The handler of a parsing route ran on the call.
Parsed(c) ==
    /\ c \in workers
    /\ calls[c].path \in ParsingPaths
    /\ calls[c].handler # ""

\* C5: on /lights/rgb, /lights/brightness and /lights/colortemp a decoded
\* request is answered 400, with the device list unread and no device called,
\* exactly when a parameter is outside its inclusive range; every in-range
\* request, endpoints included, goes to the fan-out.  A call answered 400 has
\* never contacted a device.
C5_RangeValidation ==
    \A c \in workers :
        LET k == calls[c]
        IN /\ (Parsed(c) /\ k.body.kind = "json") =>
                 IF OutOfRange(k.path, k.body)
                 THEN /\ k.status = StatusBadRequest
                      /\ k.op = NoOperation
                      /\ k.devicesRead = 0
                      /\ k.trace = <<>>
                      /\ k.pc \in {"exit", "done"}
                 ELSE /\ k.op # NoOperation
                      /\ k.status # StatusBadRequest
                      /\ k.pc = "done" => /\ k.devicesRead = 1
                                          /\ Len(Operations(k.trace)) = Len(k.devs)
           /\ (c \in workers /\ k.status = StatusBadRequest) => k.trace = <<>>

C5_Witness ==
    \E c \in workers :
        /\ Done(c)
        /\ calls[c].path = "/lights/rgb"
        /\ calls[c].body = [kind |-> "json", fields |-> [n \in {"r", "g", "b"} |->
                                IF n = "b" THEN 256 ELSE IF n = "g" THEN 255 ELSE 0]]
        /\ calls[c].status = StatusBadRequest
        /\ Len(devices) = MaxDevices

\* C6: on the three parsing routes a body that does not decode into the
\* route's schema is answered 400; the device list is not read and no device
\* is called.
C6_UndecodableBodyRejected ==
    \A c \in workers :
        LET k == calls[c]
        IN (Parsed(c) /\ k.body.kind # "json") =>
              /\ k.status = StatusBadRequest
              /\ k.out = <<Text("Invalid JSON")>>
              /\ k.op = NoOperation
              /\ k.devicesRead = 0
              /\ k.trace = <<>>

C6_Witness ==
    \E c \in workers :
        /\ Done(c)
        /\ calls[c].handler = "ColorTemp"
        /\ calls[c].body.kind = "mistyped"
        /\ calls[c].status = StatusBadRequest
        /\ Len(devices) = MaxDevices

\* C7: a call the mux answered with 401 or 404 reaches the client as a
\* redirect: status 302 and a Location header naming the fallback URL.
C7_RedirectObserved ==
    \A c \in workers :
        (Done(c) /\ calls[c].srw \in {StatusUnauthorized, StatusNotFound}) =>
            /\ calls[c].status = StatusFound
            /\ calls[c].sent["Location"] = RedirectURL

\* C8: every response of the API server carries the X-Request-ID header.
C8_EveryResponseCorrelated ==
    \A c \in workers :
        (Done(c) /\ server = "api") => calls[c].sent["X-Request-ID"] # ""

\* C9: every call the gate rejects gets the same response, whatever was
\* wrong with its credential: the same status, the same body and the same
\* headers, none of them telling a missing header from a wrong one.
C9_UniformRejection ==
    \A c \in workers :
        (Done(c) /\ calls[c].gate = "rejected") =>
            /\ calls[c].status = StatusUnauthorized
            /\ calls[c].out = <<Text("Unauthorized")>>
            /\ calls[c].sent = [NoHeaders EXCEPT !["Content-Type"] = "text/plain; charset=utf-8",
                                                 !["X-Content-Type-Options"] = "nosniff"]

C9_Witness ==
    \E c \in workers :
        /\ Done(c)
        /\ calls[c].gate = "rejected"
        /\ calls[c].auth = <<>>
        /\ calls[c].method = "GET"
        /\ calls[c].out = <<Text("Unauthorized")>>

C11_EveryEndpointNeedsToken ==
    \A c \in workers :
        (server = "api" /\ calls[c].handler # "") => calls[c].auth = ValidCredential

(***************************************************************************)
(* The health aggregation applied on its own: any map of checks of any     *)
(* severity, iterated in any order, goes through the loop, the status      *)
(* mapping and the response of Health.                                     *)
(***************************************************************************)
Severities == {"ok", "warn", "error"}

CheckIds == 1..MaxChecks

\* The orders a map with the keys S may be iterated in.
Orders(S) ==
    { f \in [1..Cardinality(S) -> S] : \A i, j \in 1..Cardinality(S) : i # j => f[i] # f[j] }

InitAggregate ==
    /\ server = "api"
    /\ workers = {}
    /\ probe = [kind |-> "health", pc |-> "input"]
    /\ now = 0
    /\ StartTime = now
    /\ controllerInitialized = TRUE
    /\ devices = <<>>
    /\ device = [d \in DeviceIds |-> NewDevice]
    /\ calls = [c \in workers |-> IdleCall]
    /\ activeConnections = 0
    /\ httpRequestsTotal = EmptyBag
    /\ httpRequestDuration = EmptyBag
    /\ lightOperationsTotal = EmptyBag

serverVars ==
    << server, workers, now, StartTime, controllerInitialized, devices, device, calls,
       metricVars >>

\* checks := the map; range picks an order.
MakeChecks ==
    /\ probe.kind = "health"
    /\ probe.pc = "input"
    /\ \E S \in SUBSET CheckIds :
         \E severity \in [S -> Severities], order \in Orders(S) :
            probe' = [kind |-> "health", pc |-> "loop", severity |-> severity,
                      order |-> [i \in 1..Len(order) |-> Check(order[i], severity[order[i]], "")]]
    /\ UNCHANGED serverVars

\* The loop, the status line and the body, with the encoding succeeding or not.
Aggregate ==
    /\ probe.kind = "health"
    /\ probe.pc = "loop"
    /\ \E encoded \in BOOLEAN :
         LET status == OverallStatus(probe.order)
         IN probe' = [probe EXCEPT !.pc = "done"] @@
                     [overall |-> status, encoded |-> encoded,
                      response |-> HealthResponse(IdleCall, status, probe.order, encoded)]
    /\ UNCHANGED serverVars

NextAggregate == MakeChecks \/ Aggregate

AggregateSpec == InitAggregate /\ [][NextAggregate]_vars

Aggregated == probe.kind = "health" /\ probe.pc = "done"

Some(severity, s) == \E id \in DOMAIN severity : severity[id] = s

\* C12: the overall health status follows by precedence from the set of
\* checks alone, whatever order the map is iterated in: error iff some check
\* is error, warn iff none is error and some is warn, else ok.
C12_OverallByPrecedence ==
    Aggregated =>
        /\ (probe.overall = "error") <=> Some(probe.severity, "error")
        /\ (probe.overall = "warn") <=>
              (~Some(probe.severity, "error") /\ Some(probe.severity, "warn"))
        /\ (probe.overall = "ok") <=>
              (~Some(probe.severity, "error") /\ ~Some(probe.severity, "warn"))

C12_Witness ==
    /\ Aggregated
    /\ Len(probe.order) = 3
    /\ probe.order[1].status = "ok"
    /\ probe.order[2].status = "error"
    /\ probe.order[3].status = "warn"
    /\ probe.overall = "error"

\* C13: the status line of the health response follows from the overall
\* severity alone: 200 for ok and for warn, 503 for error, also when encoding
\* the report fails.
C13_TransportStatusFromOverall ==
    Aggregated =>
        /\ probe.overall \in {"ok", "warn"} => probe.response.status = StatusOK
        /\ probe.overall = "error" => probe.response.status = StatusServiceUnavailable

C13_Witness ==
    /\ Aggregated
    /\ probe.overall = "warn"
    /\ ~probe.encoded
    /\ probe.response.status = StatusOK

HealthReports(k) == { i \in DOMAIN k.out : k.out[i].kind = "json-health" }

\* The controller check as the report of a finished Health call must show it.
ControllerCheckNamed(name, k) ==
    /\ (k.status = StatusServiceUnavailable) <=> ~controllerInitialized
    /\ controllerInitialized => k.status = StatusOK
    /\ \A i \in HealthReports(k) :
         /\ Len(k.out[i].items) = 1
         /\ k.out[i].items[1].name = name
         /\ (k.out[i].items[1].status = "error") <=> ~controllerInitialized
         /\ controllerInitialized =>
              /\ k.out[i].items[1].status = "ok"
              /\ k.out[i].items[1].detail \in
                    {"devices connected", "Controller initialized, no devices currently connected"}
         /\ k.out[i].text = k.out[i].items[1].status

\* C14 as stated: the check is error, the overall status error and the
\* response 503 exactly when the controller is uninitialized, ok and 200 with
\* zero or more devices, and it is reported as checks["registry"].
C14_ReportedAsRegistry ==
    \A c \in workers :
        (Done(c) /\ calls[c].handler = "Health") => ControllerCheckNamed("registry", calls[c])

\* C14 amended: the same, with the check reported as checks["controller"].
C14_ControllerCheck ==
    \A c \in workers :
        (Done(c) /\ calls[c].handler = "Health") => ControllerCheckNamed("controller", calls[c])

C14_Witness ==
    \E c \in workers :
        /\ Done(c)
        /\ calls[c].handler = "Health"
        /\ controllerInitialized
        /\ calls[c].status = StatusOK
        /\ \E i \in HealthReports(calls[c]) :
             calls[c].out[i].items[1].detail =
                 "Controller initialized, no devices currently connected"

StatusRequests(trace) == SelectSeq(trace, LAMBDA e : e.ev = "status")

RECURSIVE Answered(_)
Answered(trace) ==
    IF trace = <<>> THEN <<>>
    ELSE IF Head(trace).ok THEN <<Head(trace).dev>> \o Answered(Tail(trace))
    ELSE Answered(Tail(trace))

\* C15: a finished Status call answers 200, has requested the status of every
\* device of the enumeration once and in order, and returns one entry per
\* device that answered, in that order, the failed ones left out; none for no
\* devices.
C15_StatusSkipsFailedDevices ==
    \A c \in workers :
        (Done(c) /\ calls[c].handler = "Status") =>
            LET k == calls[c]
                requests == StatusRequests(k.trace)
            IN /\ k.status = StatusOK
               /\ DevicesOf(requests) = k.devs
               /\ Len(k.out) = 1
               /\ k.out[1].kind = "json-list"
               /\ [i \in 1..Len(k.out[1].items) |-> k.out[1].items[i].deviceID]
                     = Answered(requests)
               /\ k.devs = <<>> => k.out[1].items = <<>>

C15_Witness ==
    \E c \in workers :
        /\ Done(c)
        /\ calls[c].handler = "Status"
        /\ Len(calls[c].devs) = 2
        /\ ~calls[c].trace[1].ok
        /\ calls[c].trace[2].ok
        /\ Len(calls[c].out[1].items) = 1
        /\ calls[c].out[1].items[1].deviceID = calls[c].devs[2]

(***************************************************************************)
(* config.Load applied on its own: the process starts with an environment  *)
(* and possibly a .env file in its directory, then loads its configuration.*)
(***************************************************************************)
ConfigNames == {"HOSTNAME", "PORT", "METRICS_PORT", "BEARER_TOKEN"}

\* What a variable may hold when the process starts: the empty string or a value.
EnvValues(name) ==
    CASE name = "HOSTNAME" -> {"", "127.0.0.1"}
      [] name = "PORT" -> {"", "3000"}
      [] name = "METRICS_PORT" -> {"", "9100"}
      [] name = "BEARER_TOKEN" -> {"", "custom-token"}
      [] name = "GO_ENV" -> {"production", "development"}

\* What the .env file gives a variable it names.
FileValue(name) ==
    CASE name = "HOSTNAME" -> "10.0.0.1"
      [] name = "PORT" -> "8000"
      [] name = "METRICS_PORT" -> "9191"
      [] name = "BEARER_TOKEN" -> "file-token"

\* An environment is a function from the names that are set to their values.
Environments ==
    UNION { { e \in [S -> UNION { EnvValues(n) : n \in S }] : \A n \in S : e[n] \in EnvValues(n) }
            : S \in SUBSET (ConfigNames \cup {"GO_ENV"}) }

\* A missing .env file reads as one that names nothing.
DotEnvFiles == { [n \in S |-> FileValue(n)] : S \in SUBSET ConfigNames }

\* os.Getenv: the empty string for a name that is not set.
Getenv(env, name) == IF name \in DOMAIN env THEN env[name] ELSE ""

\* godotenv.Load: sets the variables the file names that the environment does
\* not already have.
DotenvLoad(env, file) ==
    [n \in DOMAIN env \cup DOMAIN file |-> IF n \in DOMAIN env THEN env[n] ELSE file[n]]

\* Mutant of Default: only the first of the defaults is ever applied.
DefaultHostOnly(value, fallback) ==
    IF value = "" /\ fallback = "0.0.0.0" THEN fallback ELSE value

Default(value, fallback) == IF value = "" THEN fallback ELSE value

NoConfig == [Host |-> "", Port |-> "", MetricsPort |-> "", BearerToken |-> ""]

\* Load: the environment it leaves behind, whether it failed, and the Config.
Load(env, file) ==
    LET environ == IF Getenv(env, "GO_ENV") # "production" THEN DotenvLoad(env, file) ELSE env
        host == Default(Getenv(environ, "HOSTNAME"), "0.0.0.0")
        port == Default(Getenv(environ, "PORT"), "8080")
        metricsPort == Default(Getenv(environ, "METRICS_PORT"), "9090")
        token == Getenv(environ, "BEARER_TOKEN")
    IN IF token = ""
       THEN [environ |-> environ, err |-> TRUE, cfg |-> NoConfig]
       ELSE [environ |-> environ, err |-> FALSE,
             cfg |-> [Host |-> host, Port |-> port, MetricsPort |-> metricsPort,
                      BearerToken |-> token]]

InitConfig ==
    /\ server = "api"
    /\ workers = {}
    /\ probe = [kind |-> "config", pc |-> "input"]
    /\ now = 0
    /\ StartTime = now
    /\ controllerInitialized = FALSE
    /\ devices = <<>>
    /\ device = [d \in DeviceIds |-> NewDevice]
    /\ calls = [c \in workers |-> IdleCall]
    /\ activeConnections = 0
    /\ httpRequestsTotal = EmptyBag
    /\ httpRequestDuration = EmptyBag
    /\ lightOperationsTotal = EmptyBag

\* The process is started with an environment, in a directory.
StartProcess ==
    /\ probe.kind = "config"
    /\ probe.pc = "input"
    /\ \E env \in Environments, file \in DotEnvFiles :
         probe' = [kind |-> "config", pc |-> "main", env |-> env, file |-> file]
    /\ UNCHANGED serverVars

\* cfg, err := config.Load()
LoadConfig ==
    /\ probe.kind = "config"
    /\ probe.pc = "main"
    /\ probe' = [probe EXCEPT !.pc = "loaded"] @@ Load(probe.env, probe.file)
    /\ UNCHANGED serverVars

NextConfig == StartProcess \/ LoadConfig

ConfigSpec == InitConfig /\ [][NextConfig]_vars

Loaded == probe.kind = "config" /\ probe.pc = "loaded"

\* C16: Load fails, with no Config, iff BEARER_TOKEN is empty or unset in
\* the environment it reads (the process environment, which godotenv.Load
\* has completed from .env outside production without replacing what was
\* set); otherwise the Config holds the token and the values of HOSTNAME,
\* PORT and METRICS_PORT, or 0.0.0.0, 8080 and 9090 where these are empty or
\* unset.
C16_LoadRequiresTokenAndDefaults ==
    Loaded =>
        LET e == probe.environ
            value(n, fallback) == IF n \in DOMAIN e /\ e[n] # "" THEN e[n] ELSE fallback
        IN /\ \A n \in DOMAIN probe.env : n \in DOMAIN e /\ e[n] = probe.env[n]
           /\ Getenv(probe.env, "GO_ENV") = "production" => e = probe.env
           /\ probe.err <=> ("BEARER_TOKEN" \notin DOMAIN e \/ e["BEARER_TOKEN"] = "")
           /\ probe.err => probe.cfg = NoConfig
           /\ ~probe.err =>
                /\ probe.cfg.BearerToken = e["BEARER_TOKEN"]
                /\ probe.cfg.Host = value("HOSTNAME", "0.0.0.0")
                /\ probe.cfg.Port = value("PORT", "8080")
                /\ probe.cfg.MetricsPort = value("METRICS_PORT", "9090")

C16_Witness ==
    /\ Loaded
    /\ probe.env = [BEARER_TOKEN |-> "custom-token", PORT |-> "", HOSTNAME |-> "127.0.0.1"]
    /\ probe.file = <<>>
    /\ ~probe.err
    /\ probe.cfg = [Host |-> "127.0.0.1", Port |-> "8080", MetricsPort |-> "9090",
                    BearerToken |-> "custom-token"]

\* The fan-out of the call is over and its result recorded.
Executed(c) ==
    /\ c \in workers
    /\ calls[c].op # NoOperation
    /\ calls[c].pc \in {"exit", "done"}

\* C17: every fan-out execution counts once in lights_operations_total, under
\* 'success' when every device succeeded and under 'error' when one failed.
C17_FailuresCounted ==
    \A c \in workers :
        Executed(c) =>
            lightOperationsTotal =
                SetToBag({<<calls[c].op.name, IF calls[c].success THEN "success" ELSE "error">>})

\* C18: the correlation identifier of a call exists before its credential is
\* checked: once the gate has decided, the call carries a request ID.
C18_CorrelationBeforeGate ==
    \A c \in workers :
        (server = "api" /\ calls[c].gate # "none") => calls[c].ctxRequestID # ""

\* C20: whatever its outcome, a finished call on the API server has produced
\* exactly one request count, keyed by its method, route and status, and
\* exactly one duration observation.
C20_EveryCallMeasured ==
    \A c \in workers :
        (server = "api" /\ Done(c)) =>
            /\ httpRequestsTotal = SetToBag({<<calls[c].method, calls[c].path, calls[c].srw>>})
            /\ httpRequestDuration = SetToBag({<<calls[c].method, calls[c].path>>})

(***************************************************************************)
(* Either server with two calls in flight at once, each on its own         *)
(* goroutine, over a few routes: a fan-out, a validation failure, a health *)
(* check, a route no handler matches, with and without the credential. A   *)
(* device operation may also panic: the deferred calls of the frames being *)
(* unwound run, and net/http recovers the panic and drops the connection.  *)
(***************************************************************************)
ConcurrentPaths ==
    {"/lights/on", "/lights/red", "/lights/yellow", "/lights/brightness", "/health",
     "/lights/purple"}

ConcurrentAuth == {<<>>, BearerPrefix \o Token}

InitConcurrent ==
    /\ server \in Servers
    /\ workers = {1, 2}
    /\ probe = NoProbe
    /\ now = 0
    /\ StartTime = now
    /\ controllerInitialized = TRUE
    /\ devices = [d \in DeviceIds |-> d]
    /\ device = [d \in DeviceIds |-> NewDevice]
    /\ calls = [c \in workers |-> IdleCall]
    /\ activeConnections = 0
    /\ httpRequestsTotal = EmptyBag
    /\ httpRequestDuration = EmptyBag
    /\ lightOperationsTotal = EmptyBag

AcceptConcurrent(c) ==
    /\ c \in workers
    /\ calls[c].pc = "idle"
    /\ \E p \in ConcurrentPaths, a \in ConcurrentAuth :
         Set(c, Received(calls[c], "POST", p, a, NoBody))
    /\ Frame

InFrames(stack, stage) == \E i \in DOMAIN stack : stack[i] = stage

\* Mutant of Deferred: the decrement is an ordinary statement after
\* next.ServeHTTP, which a panic skips.
NothingDeferred(stack, gauge) == gauge

\* The gauge after the deferred calls of the frames a panic unwinds:
\* defer metrics.ActiveConnections.Dec() of MetricsMiddleware.
Deferred(stack, gauge) ==
    IF InFrames(stack, "MetricsMiddleware") THEN gauge - 1 ELSE gauge

\* operationFunc(device) panics.
Panic(c) ==
    /\ c \in workers
    /\ calls[c].pc = "operating"
    /\ LET k == calls[c]
       IN /\ Set(c, [k EXCEPT !.pc = "aborted", !.stack = <<>>, !.running = {}])
          /\ activeConnections' = Deferred(k.stack, activeConnections)
    /\ UNCHANGED << server, workers, probe, now, StartTime, controllerInitialized, devices, device,
                    httpRequestsTotal, httpRequestDuration, lightOperationsTotal >>

NextConcurrent ==
    \/ \E c \in workers : AcceptConcurrent(c)
    \/ \E c \in workers : ServeMux(c)
    \/ \E c \in workers : RedirectStep(c)
    \/ \E c \in workers : AuthMiddleware(c)
    \/ \E c \in workers : LoggingEnter(c)
    \/ \E c \in workers : LoggingExit(c)
    \/ \E c \in workers : MetricsEnter(c)
    \/ \E c \in workers : MetricsExit(c)
    \/ \E c \in workers : TurnOn(c)
    \/ \E c \in workers : Red(c)
    \/ \E c \in workers : Yellow(c)
    \/ \E c \in workers : Brightness(c)
    \/ \E c \in workers : ExecuteStart(c)
    \/ \E c \in workers : DeviceCall(c)
    \/ \E c \in workers : DeviceOperation(c)
    \/ \E c \in workers : Sleep(c)
    \/ \E c \in workers : ExecuteFinish(c)
    \/ \E c \in workers : Health(c)
    \/ \E c \in workers : Panic(c)

ConcurrentSpec == InitConcurrent /\ [][NextConcurrent]_vars

\* The call is between entry to and exit from MetricsMiddleware.
InFlight(c) == InFrames(calls[c].stack, "MetricsMiddleware")

Finished(c) == calls[c].pc \in {"done", "aborted"}

\* C19: under every interleaving the in-flight gauge is the number of calls
\* inside MetricsMiddleware: never negative, decremented once for every
\* increment however the handler is left (return, 4xx or 5xx, panic), and
\* back to zero once every call has finished.
C19_GaugeCountsCallsInFlight ==
    /\ activeConnections = Cardinality({ c \in workers : InFlight(c) })
    /\ activeConnections >= 0
    /\ (\A c \in workers : Finished(c)) => activeConnections = 0

C19_Witness ==
    \E c1, c2 \in workers :
        /\ calls[c1].pc = "aborted"
        /\ calls[c1].mrw # NotWritten
        /\ calls[c2].pc = "done"
        /\ calls[c2].status = StatusBadRequest
        /\ calls[c2].mrw = StatusBadRequest
        /\ activeConnections = 0

(***************************************************************************)
(* MetricsMiddleware applied on its own: a handler making any short        *)
(* sequence of calls on its ResponseWriter is served once behind the       *)
(* metrics wrapper and once without it.                                    *)
(***************************************************************************)
WriterOps ==
    { [op |-> "WriteHeader", code |-> code, chunk |-> Text("")]
        : code \in {StatusOK, StatusBadRequest, StatusInternalServerError} }
    \cup { [op |-> "Write", code |-> NotWritten, chunk |-> chunk]
             : chunk \in {Text("Invalid JSON"), JSONObject("status", "lights turned on")} }
    \cup { [op |-> "Header", code |-> NotWritten, chunk |-> Text("application/json")] }

HandlerBehaviours == UNION { [1..n -> WriterOps] : n \in 0..MaxOps }

\* The handler's calls, in order, on the writer it was handed.
RECURSIVE Handle(_, _)
Handle(w, ops) ==
    IF ops = <<>> THEN w
    ELSE LET o == Head(ops)
             w1 == CASE o.op = "WriteHeader" -> WriteHeader(w, o.code)
                     [] o.op = "Write" -> Write(w, o.chunk)
                     [] o.op = "Header" -> SetHeader(w, "Content-Type", o.chunk.text)
         IN Handle(w1, Tail(ops))

\* wrapped := &metricsResponseWriter{ResponseWriter: w, status: 200};
\* next.ServeHTTP(wrapped, r)
ServeWrapped(w, ops) ==
    LET wrapped == [w EXCEPT !.mrw = StatusOK, !.stack = Append(@, "MetricsMiddleware")]
        served == Handle(wrapped, ops)
    IN [served EXCEPT !.stack = Pop(@)]

\* next.ServeHTTP(w, r) without the middleware.
ServeBare(w, ops) == Handle(w, ops)

InitWrapper ==
    /\ server = "api"
    /\ workers = {}
    /\ probe = [kind |-> "wrapper", pc |-> "input"]
    /\ now = 0
    /\ StartTime = now
    /\ controllerInitialized = TRUE
    /\ devices = <<>>
    /\ device = [d \in DeviceIds |-> NewDevice]
    /\ calls = [c \in workers |-> IdleCall]
    /\ activeConnections = 0
    /\ httpRequestsTotal = EmptyBag
    /\ httpRequestDuration = EmptyBag
    /\ lightOperationsTotal = EmptyBag

\* A handler, registered with or without the logging middleware around it.
RegisterHandler ==
    /\ probe.kind = "wrapper"
    /\ probe.pc = "input"
    /\ \E ops \in HandlerBehaviours, outer \in {<<>>, <<"LoggingMiddleware">>} :
         probe' = [kind |-> "wrapper", pc |-> "serve", ops |-> ops, outer |-> outer]
    /\ UNCHANGED serverVars

ServeBoth ==
    /\ probe.kind = "wrapper"
    /\ probe.pc = "serve"
    /\ LET w == [IdleCall EXCEPT !.srw = StatusOK, !.stack = probe.outer]
       IN probe' = [probe EXCEPT !.pc = "served"] @@
                   [wrapped |-> ServeWrapped(w, probe.ops), bare |-> ServeBare(w, probe.ops)]
    /\ UNCHANGED serverVars

NextWrapper == RegisterHandler \/ ServeBoth

WrapperSpec == InitWrapper /\ [][NextWrapper]_vars

Served == probe.kind = "wrapper" /\ probe.pc = "served"

\* C21: whatever the handler does with its writer, the status line, the
\* headers sent and the body on the connection are the same behind the
\* metrics wrapper as without it.
C21_MetricsWrapperObservational ==
    Served =>
        /\ probe.wrapped.status = probe.bare.status
        /\ probe.wrapped.sent = probe.bare.sent
        /\ probe.wrapped.out = probe.bare.out
        /\ probe.wrapped.srw = probe.bare.srw

C21_Witness ==
    /\ Served
    /\ Len(probe.ops) = 3
    /\ probe.ops[1].op = "Header"
    /\ probe.ops[2].op = "WriteHeader"
    /\ probe.ops[2].code = StatusInternalServerError
    /\ probe.ops[3].op = "Write"
    /\ probe.wrapped.mrw = StatusInternalServerError
    /\ probe.wrapped.status = StatusInternalServerError
    /\ Len(probe.wrapped.out) = 1

\* The call is in, or through, the loop of executeLightOperation.
InFanOut(c) ==
    /\ c \in workers
    /\ calls[c].op # NoOperation
    /\ calls[c].pc \notin {"execute", "aborted"}

Delays(trace) == Len(SelectSeq(trace, LAMBDA e : e.ev = "sleep"))

\* C22: in a fan-out the events alternate device call, delay, device call,
\* ..., beginning and ending with a device call: no delay before the first
\* or after the last, n - 1 delays for n >= 1 devices and none for n = 0,
\* whether the device calls failed or not.
C22_DelayOnlyBetweenDevices ==
    \A c \in workers :
        InFanOut(c) =>
            LET k == calls[c]
                n == Len(k.devs)
            IN /\ \A j \in DOMAIN k.trace :
                    k.trace[j].ev = IF j % 2 = 1 THEN "op" ELSE "sleep"
               /\ k.pc = "sleep" => k.trace[Len(k.trace)].ev = "op"
               /\ k.pc \in {"finish", "exit", "done"} =>
                    /\ Delays(k.trace) = IF n = 0 THEN 0 ELSE n - 1
                    /\ Len(Operations(k.trace)) = n
                    /\ n > 0 => k.trace[Len(k.trace)].ev = "op"

C22_Witness ==
    \E c \in workers :
        /\ Done(c)
        /\ calls[c].op # NoOperation
        /\ Len(calls[c].devs) = 2
        /\ ~calls[c].trace[1].ok
        /\ Delays(calls[c].trace) = 1
        /\ calls[c].trace[2].ev = "sleep"

\* C23: within one fan-out at most one device command is in progress, it is
\* the command on the device the loop is at, and every command on an earlier
\* device has returned before it started.
C23_DeviceCallsSequential ==
    \A c \in workers :
        LET k == calls[c]
        IN /\ Cardinality(k.running) <= 1
           /\ k.pc # "operating" => k.running = {}
           /\ k.pc = "operating" =>
                /\ k.running = {k.devs[k.i]}
                /\ DevicesOf(Operations(k.trace)) = SubSeq(k.devs, 1, k.i - 1)

C23_Witness ==
    \E c \in workers :
        /\ calls[c].pc = "operating"
        /\ calls[c].i = 2
        /\ calls[c].running = {calls[c].devs[2]}
        /\ Len(Operations(calls[c].trace)) = 1

\* The call answered 200 after a fan-out over the whole device list.
SucceededFanOut(c) ==
    /\ Done(c)
    /\ calls[c].op # NoOperation
    /\ calls[c].status = StatusOK
    /\ calls[c].devs = devices

\* The part of a device's state a command sets.
Field(cmd) ==
    CASE cmd.kind \in {"on", "off"} -> "onOff"
      [] OTHER -> cmd.kind

\* The device shows the command.
Shows(dev, cmd) ==
    CASE cmd.kind = "on" -> dev.onOff
      [] cmd.kind = "off" -> ~dev.onOff
      [] cmd.kind = "color" -> dev.r = cmd.r /\ dev.g = cmd.g /\ dev.b = cmd.b
      [] cmd.kind = "brightness" -> dev.brightness = cmd.v
      [] cmd.kind = "kelvin" -> dev.kelvin = cmd.v
      [] OTHER -> TRUE

\* C24: fan-outs of different calls are not serialized. No call ever waits
\* for another before its next device command, and when two fan-outs over
\* the same devices both succeeded every device shows each of the two
\* commands unless the other one, setting the same field, came after it on
\* that device, which may differ from device to device.
C24_FanOutsNotSerialized ==
    /\ \A c \in workers : calls[c].pc = "device" => ENABLED DeviceCall(c)
    /\ \A c1, c2 \in workers :
         (c1 # c2 /\ SucceededFanOut(c1) /\ SucceededFanOut(c2)) =>
             \A j \in DOMAIN devices :
                 LET dev == device[devices[j]]
                     cmd1 == calls[c1].op.cmd
                     cmd2 == calls[c2].op.cmd
                 IN IF Field(cmd1) = Field(cmd2)
                    THEN Shows(dev, cmd1) \/ Shows(dev, cmd2)
                    ELSE Shows(dev, cmd1) /\ Shows(dev, cmd2)

\* Both calls report success and the devices hold a mix of the two commands.
C24_Witness ==
    \E c1, c2 \in workers :
        /\ c1 # c2
        /\ SucceededFanOut(c1)
        /\ SucceededFanOut(c2)
        /\ calls[c1].path = "/lights/red"
        /\ calls[c2].path = "/lights/yellow"
        /\ Shows(device[devices[1]], calls[c1].op.cmd)
        /\ ~Shows(device[devices[1]], calls[c2].op.cmd)
        /\ Shows(device[devices[2]], calls[c2].op.cmd)
        /\ ~Shows(device[devices[2]], calls[c1].op.cmd)

\* The handler of the call has read its request ID.
HasRead(c) == c \in workers /\ calls[c].requestID # ""

\* C25: under every interleaving the request ID a handler reads is the one
\* the logging middleware put on that call's X-Request-ID header; a handler
\* that runs without the logging middleware around it reads "unknown".
C25_RequestIDCallScoped ==
    \A c \in workers :
        HasRead(c) =>
            LET k == calls[c]
            IN IF k.lrw # NotWritten
               THEN /\ k.requestID = k.header["X-Request-ID"]
                    /\ k.requestID \in RequestIDs \cup {ZeroID}
                    /\ k.status # NotWritten => k.sent["X-Request-ID"] = k.requestID
               ELSE /\ k.requestID = "unknown"
                    /\ k.header["X-Request-ID"] = ""

\* Two calls in flight, each having read its own, different, request ID.
C25_Witness ==
    \E c1, c2 \in workers :
        /\ HasRead(c1)
        /\ HasRead(c2)
        /\ calls[c1].requestID \in RequestIDs
        /\ calls[c2].requestID \in RequestIDs
        /\ calls[c1].requestID # calls[c2].requestID
        /\ calls[c1].sent["X-Request-ID"] = calls[c1].requestID
        /\ calls[c2].sent["X-Request-ID"] = calls[c2].requestID

\* C26: a call whose request ID could not be generated ends with a 500 and
\* reaches neither a handler nor a device.
C26_FailsClosedWithoutID ==
    \A c \in workers :
        calls[c].randFailed =>
            /\ calls[c].handler = ""
            /\ calls[c].trace = <<>>
            /\ calls[c].running = {}
            /\ Done(c) => calls[c].status = StatusInternalServerError

\* C27: a response whose encoding failed reaches the client as a 500: a
\* Health call that had to fall back on "Internal server error" shows the
\* status 500, not the one chosen before encoding.
C27_EncodeFailureSurfaced ==
    \A c \in workers :
        (calls[c].handler = "Health"
            /\ \E i \in DOMAIN calls[c].out : calls[c].out[i] = Text("Internal server error"))
        => calls[c].status = StatusInternalServerError

(***************************************************************************)
(* One call that passes the gate and the validation and goes into the      *)
(* fan-out, on either server, every device call returning: the goroutine   *)
(* serving the call keeps being scheduled.                                 *)
(***************************************************************************)
FanOutPaths == {"/lights/on", "/lights/off", "/lights/brightness"}

\* The bodies the handler of the path lets through.
ValidBodies(path) ==
    IF path = "/lights/brightness"
    THEN { b \in Bodies(path) : DecodeOK(b) /\ ~BrightnessInvalid(Decode(b, {"brightness"})) }
    ELSE Bodies(path)

InitFanOut ==
    /\ server \in Servers
    /\ workers = {1}
    /\ probe = NoProbe
    /\ now = 0
    /\ StartTime = now
    /\ controllerInitialized = TRUE
    /\ devices = <<>>
    /\ device = [d \in DeviceIds |-> NewDevice]
    /\ calls = [c \in workers |-> IdleCall]
    /\ activeConnections = 0
    /\ httpRequestsTotal = EmptyBag
    /\ httpRequestDuration = EmptyBag
    /\ lightOperationsTotal = EmptyBag

AcceptFanOut(c) ==
    /\ c \in workers
    /\ calls[c].pc = "idle"
    /\ \E p \in FanOutPaths :
         \E b \in ValidBodies(p) :
            Set(c, Received(calls[c], "POST", p, BearerPrefix \o Token, b))
    /\ UNCHANGED << server, workers, probe, now, StartTime, controllerInitialized, devices, device, metricVars >>

\* One step of the goroutine serving call c.
ServeFanOut(c) ==
    \/ AcceptFanOut(c)
    \/ ServeMux(c)
    \/ RedirectStep(c)
    \/ AuthMiddleware(c)
    \/ LoggingEnter(c)
    \/ LoggingExit(c)
    \/ MetricsEnter(c)
    \/ MetricsExit(c)
    \/ TurnOn(c)
    \/ TurnOff(c)
    \/ Brightness(c)
    \/ ExecuteStart(c)
    \/ DeviceCall(c)
    \/ DeviceOperation(c)
    \/ Sleep(c)
    \/ ExecuteFinish(c)

NextFanOut ==
    \/ Discover
    \/ \E c \in workers : AcceptFanOut(c)
    \/ \E c \in workers : ServeMux(c)
    \/ \E c \in workers : RedirectStep(c)
    \/ \E c \in workers : AuthMiddleware(c)
    \/ \E c \in workers : LoggingEnter(c)
    \/ \E c \in workers : LoggingExit(c)
    \/ \E c \in workers : MetricsEnter(c)
    \/ \E c \in workers : MetricsExit(c)
    \/ \E c \in workers : TurnOn(c)
    \/ \E c \in workers : TurnOff(c)
    \/ \E c \in workers : Brightness(c)
    \/ \E c \in workers : ExecuteStart(c)
    \/ \E c \in workers : DeviceCall(c)
    \/ \E c \in workers : DeviceOperation(c)
    \/ \E c \in workers : Sleep(c)
    \/ \E c \in workers : ExecuteFinish(c)

FanOutSpec == InitFanOut /\ [][NextFanOut]_vars /\ \A c \in {1} : WF_vars(ServeFanOut(c))

\* The call has its one response, every device of the list having been tried.
Responded(c) ==
    /\ Done(c)
    /\ Len(calls[c].out) = 1
    /\ calls[c].status \in {StatusOK, StatusInternalServerError}
    /\ DevicesOf(Operations(calls[c].trace)) = calls[c].devs

\* C28: every device call returning, a call that has entered
\* executeLightOperation ends with exactly one response after all the devices
\* were tried, whichever of them failed; a device error never ends the call
\* early.
C28_FanOutTerminates ==
    \A c \in {1} : (c \in workers /\ calls[c].pc = "execute") ~> Responded(c)

\* Every device failed and the call still has its response.
C28_Witness ==
    \E c \in workers :
        /\ Responded(c)
        /\ Len(calls[c].devs) = 2
        /\ \A j \in DOMAIN calls[c].trace : calls[c].trace[j].ev = "op" => ~calls[c].trace[j].ok
        /\ calls[c].status = StatusInternalServerError

(***************************************************************************)
(* The API server while time passes: the process starts at some time, two  *)
(* calls, health checks or a fan-out, are served in any order and with any *)
(* time between their steps.                                               *)
(***************************************************************************)
Times == 0..MaxTime

UptimePaths == {"/health", "/lights/on"}

InitUptime ==
    /\ server = "api"
    /\ workers = {1, 2}
    /\ probe = NoProbe
    /\ now \in Times
    /\ StartTime = now
    /\ controllerInitialized = TRUE
    /\ devices = <<1>>
    /\ device = [d \in DeviceIds |-> NewDevice]
    /\ calls = [c \in workers |-> IdleCall]
    /\ activeConnections = 0
    /\ httpRequestsTotal = EmptyBag
    /\ httpRequestDuration = EmptyBag
    /\ lightOperationsTotal = EmptyBag

\* Time passes.
Tick ==
    /\ now < MaxTime
    /\ now' = now + 1
    /\ UNCHANGED << server, workers, probe, StartTime, controllerInitialized, devices, device,
                    calls, metricVars >>

AcceptUptime(c) ==
    /\ c \in workers
    /\ calls[c].pc = "idle"
    /\ \E p \in UptimePaths : Set(c, Received(calls[c], "GET", p, BearerPrefix \o Token, NoBody))
    /\ Frame

NextUptime ==
    \/ Tick
    \/ \E c \in workers : AcceptUptime(c)
    \/ \E c \in workers : ServeMux(c)
    \/ \E c \in workers : RedirectStep(c)
    \/ \E c \in workers : AuthMiddleware(c)
    \/ \E c \in workers : LoggingEnter(c)
    \/ \E c \in workers : LoggingExit(c)
    \/ \E c \in workers : MetricsEnter(c)
    \/ \E c \in workers : MetricsExit(c)
    \/ \E c \in workers : Health(c)
    \/ \E c \in workers : TurnOn(c)
    \/ \E c \in workers : ExecuteStart(c)
    \/ \E c \in workers : DeviceCall(c)
    \/ \E c \in workers : DeviceOperation(c)
    \/ \E c \in workers : ExecuteFinish(c)

UptimeSpec == InitUptime /\ [][NextUptime]_vars

\* Health has made its report for the call.
Reported(c) == c \in workers /\ calls[c].handler = "Health"

\* The step is Health making its report for call c.
Reports(c) == calls[c].handler = "" /\ calls'[c].handler = "Health"

UptimeInv ==
    \A c1, c2 \in workers :
        (Reported(c1) /\ Reported(c2)) =>
            /\ calls[c1].uptime = calls[c1].timestamp - StartTime
            /\ calls[c1].uptime >= 0
            /\ calls[c1].timestamp <= calls[c2].timestamp =>
                  calls[c1].uptime <= calls[c2].uptime

\* C29: StartTime is never changed, by a health call or by any other step;
\* the uptime of a report is the time since that one start, so the later of
\* two reports never shows the smaller uptime; and a health call leaves the
\* devices, the device list and the controller as they were.
C29_StartTimeFixed ==
    /\ []UptimeInv
    /\ [][StartTime' = StartTime]_vars
    /\ [][\A c \in workers :
            Reports(c) => UNCHANGED << devices, device, controllerInitialized, StartTime,
                                       lightOperationsTotal >>]_vars

\* Two reports made at different times after a start later than time 0.
C29_Witness ==
    \E c1, c2 \in workers :
        /\ Reported(c1)
        /\ Reported(c2)
        /\ StartTime > 0
        /\ calls[c1].uptime > 0
        /\ calls[c1].uptime < calls[c2].uptime

\* The status line the client gets: the one the first WriteHeader fixed, or
\* the 200 net/http sends for a handler that never wrote one.
Observed(k) == IF k.status = NotWritten THEN StatusOK ELSE k.status

\* C30: when a call is over, every wrapper it went through (statusRecorder,
\* the logging responseWriter, metricsResponseWriter) has recorded the status
\* the client observes.
C30_RecordedStatusIsObserved ==
    \A c \in workers :
        Done(c) =>
            LET k == calls[c]
            IN /\ k.srw = Observed(k)
               /\ k.lrw # NotWritten => k.lrw = Observed(k)
               /\ k.mrw # NotWritten => k.mrw = Observed(k)

\* The call is for a route of the server and, where the route has the gate,
\* carries the token.
Admitted(c) ==
    /\ c \in workers
    /\ calls[c].path \in DOMAIN Routes(server)
    /\ Head(Routes(server)[calls[c].path]) = "AuthMiddleware" =>
          calls[c].auth = ValidCredential

\* C31: no route looks at the method. A finished call to a route, with the
\* token where the route is gated, has run that route's handler whatever
\* its method; on a command route it has run the fan-out of the route, and
\* every device that acknowledged shows the command.
C31_AnyMethodRunsTheRoute ==
    \A c \in workers :
        (Done(c) /\ Admitted(c)) =>
            LET k == calls[c]
                route == Routes(server)[k.path]
            IN /\ k.handler = route[Len(route)]
               /\ k.op # NoOperation =>
                    /\ k.op.msg = Confirmation(k.path)
                    /\ DevicesOf(Operations(k.trace)) = k.devs
                    /\ \A j \in DOMAIN k.trace :
                         (k.trace[j].ev = "op" /\ k.trace[j].ok) =>
                             Shows(device[k.trace[j].dev], k.op.cmd)
               /\ (k.path \notin ParsingPaths /\ k.handler \notin {"Status", "Health"}) =>
                    k.op # NoOperation

\* GET /lights/on with the token turns the device on.
C31_Witness ==
    \E c \in workers :
        /\ Done(c)
        /\ calls[c].method = "GET"
        /\ calls[c].path = "/lights/on"
        /\ calls[c].status = StatusOK
        /\ Len(calls[c].devs) = 1
        /\ device[calls[c].devs[1]].onOff

\* Some field of the route's schema is not in the decoded object.
Omits(body, names) == body.kind = "json" /\ \E n \in names : n \notin DOMAIN body.fields

\* C32: a JSON object that leaves out a numeric field is read as giving 0
\* for it. On /lights/rgb and /lights/brightness such a body, its other
\* fields in range, goes to the fan-out with 0 for what is missing; on
\* /lights/colortemp it is answered 400 and no device is called.
C32_MissingFieldIsZero ==
    \A c \in workers :
        LET k == calls[c]
        IN /\ (Parsed(c) /\ k.path = "/lights/rgb" /\ Omits(k.body, {"r", "g", "b"})
                  /\ \A n \in DOMAIN k.body.fields : k.body.fields[n] \in 0..255) =>
                /\ k.status # StatusBadRequest
                /\ k.op.cmd = Command("color", Given(k.body, "r"), Given(k.body, "g"),
                                      Given(k.body, "b"), 0)
                /\ Done(c) => Len(Operations(k.trace)) = Len(k.devs)
           /\ (Parsed(c) /\ k.path = "/lights/brightness" /\ Omits(k.body, {"brightness"})) =>
                /\ k.status # StatusBadRequest
                /\ k.op.cmd = Command("brightness", 0, 0, 0, 0)
                /\ Done(c) => Len(Operations(k.trace)) = Len(k.devs)
           /\ (Parsed(c) /\ k.path = "/lights/colortemp" /\ Omits(k.body, {"temperature"})) =>
                /\ k.status = StatusBadRequest
                /\ k.op = NoOperation
                /\ k.trace = <<>>
                /\ k.devicesRead = 0

\* An rgb body giving only g = 255 has set a device to (0, 255, 0).
C32_Witness ==
    \E c \in workers :
        /\ Done(c)
        /\ calls[c].path = "/lights/rgb"
        /\ calls[c].body.kind = "json"
        /\ DOMAIN calls[c].body.fields = {"g"}
        /\ calls[c].body.fields["g"] = 255
        /\ calls[c].status = StatusOK
        /\ Len(calls[c].devs) = 1
        /\ device[calls[c].devs[1]].r = 0
        /\ device[calls[c].devs[1]].g = 255
        /\ device[calls[c].devs[1]].b = 0

====
